---- MODULE Spec2Model ----
(***************************************************************************)
(* State-machine model of the RASCA/AWACS tag-state server                 *)
(* (src/Server/.awacs-server): the registry of tag objects, the update of  *)
(* the registry from a location-server snapshot, the all-pairs vectors,    *)
(* the zone lights and the telemetry, driven by the loop of main().        *)
(*                                                                         *)
(* Number representation.  Coordinates are integers counting quarters of a *)
(* distance unit (0.25 is exactly representable as a float, so sums and    *)
(* squares of the modelled coordinates are exact in the program).          *)
(* Distances are integers counting tenths of a unit (the program rounds    *)
(* every distance to one decimal), speeds are tenths of km/h, headings and *)
(* directions are integer degrees, timestamps are whole seconds.           *)
(* A Python value that may be None is a sequence of length 0 (None) or 1.  *)
(***************************************************************************)
EXTENDS Integers, Sequences, FiniteSets, TLC

None == <<>>
Some(v) == <<v>>

Abs(n) == IF n < 0 THEN 0 - n ELSE n

\* Largest m with m*m <= n (math.sqrt before rounding), n >= 0, found by
\* bisection of lo..hi.
RECURSIVE ISqrtBetween(_, _, _)
ISqrtBetween(n, lo, hi) ==
    IF lo = hi THEN lo
    ELSE LET mid == (lo + hi + 1) \div 2
         IN  IF mid * mid <= n THEN ISqrtBetween(n, mid, hi)
                               ELSE ISqrtBetween(n, lo, mid - 1)

\* 46340 is the largest integer whose square TLC can hold (32 bits).
ISqrt(n) == ISqrtBetween(n, 0, IF n < 46340 THEN n ELSE 46340)

(***************************************************************************)
(* config.py                                                               *)
(***************************************************************************)
\* POS_FLUCTUATION_FILTER = 0.8, in tenths of a unit.
POS_FLUCTUATION_FILTER == 8

\* ZONE_PIN_MAP = {"LZ1": 2, "LZ2": 3, "LZ3": 14, "LZ4": 4}, in dict order.
\* A zone name is the sequence of its characters.
ZONE_PIN_MAP ==
    << [zone |-> <<"L", "Z", "1">>, pin |-> 2],
       [zone |-> <<"L", "Z", "2">>, pin |-> 3],
       [zone |-> <<"L", "Z", "3">>, pin |-> 14],
       [zone |-> <<"L", "Z", "4">>, pin |-> 4] >>

(***************************************************************************)
(* geometricFunctions.py                                                   *)
(***************************************************************************)
\* tan((k - 0.5) degrees) * 100000 for k = 1..90, rounded.
TanTable ==
    << 873, 2619, 4366, 6116, 7870, 9629, 11394, 13165, 14945, 16734,
       18534, 20345, 22169, 24008, 25862, 27732, 29621, 31530, 33460, 35412,
       37388, 39391, 41421, 43481, 45573, 47698, 49858, 52057, 54296, 56577,
       58905, 61280, 63707, 66189, 68728, 71329, 73996, 76733, 79544, 82434,
       85408, 88473, 91633, 94896, 98270, 101761, 105378, 109131, 113029,
       117085, 121310, 125717, 130323, 135142, 140195, 145501, 151084,
       156969, 163185, 169766, 176749, 184177, 192098, 200569, 209654,
       219430, 229984, 241421, 253865, 267462, 282391, 298868, 317159,
       337594, 360588, 386671, 416530, 451071, 491516, 539552, 597576,
       669116, 759575, 877689, 1038540, 1270620, 1634986, 2290377, 3818846,
       11458865 >>

\* round(degrees(atan(b / a))) for a, b >= 0 not both 0: the number of
\* half-degree boundaries below the slope b/a (90 when a = 0).
RoundAtanDeg(b, a) ==
    Cardinality({k \in 1..90 : b * 100000 > a * TanTable[k]})

\* calculate_distance on two known points: round(sqrt(dx^2 + dy^2), 1) in
\* tenths.  With r = 25 * (dx^2 + dy^2), sqrt(r) / 2 is the distance in
\* tenths; it is a tie exactly when r is an odd perfect square, and round()
\* then takes the even neighbour (the value is an exact float).
Dist10(dx, dy) ==
    LET r == 25 * (dx * dx + dy * dy)
        m == ISqrt(r)
    IN  IF m % 2 = 0 THEN m \div 2
        ELSE IF m * m = r
             THEN (IF ((m - 1) \div 2) % 2 = 0 THEN (m - 1) \div 2
                                              ELSE (m + 1) \div 2)
             ELSE (m + 1) \div 2

\* A point is a pair of optional coordinates; arithmetic on a None
\* coordinate raises TypeError in the program.
PosKnown(p) == p[1] # None /\ p[2] # None

calculate_distance(coordinates_1, coordinates_2) ==
    Dist10(coordinates_2[1][1] - coordinates_1[1][1],
           coordinates_2[2][1] - coordinates_1[2][1])

\* calculate_heading on two known points:
\* round((90 - degrees(atan2(-dy, dx))) % 360).  The value before rounding
\* lies in [0, 360); it is in [359.5, 360) for dx < 0, dy < 0 with a slope
\* steeper than tan(89.5), and then rounds to 360.
HeadingOf(dx, dy) ==
    LET phi == RoundAtanDeg(Abs(dy), Abs(dx))
    IN  CASE dx = 0 /\ dy = 0 -> 90
          [] dx = 0 /\ dy < 0 -> 0
          [] dx = 0 /\ dy > 0 -> 180
          [] dx > 0 /\ dy <= 0 -> 90 - phi
          [] dx > 0 /\ dy > 0 -> 90 + phi
          [] dx < 0 /\ dy = 0 -> 270
          [] dx < 0 /\ dy < 0 -> 270 + phi
          [] dx < 0 /\ dy > 0 -> 270 - phi

calculate_heading(coordinates_1, coordinates_2) ==
    HeadingOf(coordinates_2[1][1] - coordinates_1[1][1],
              coordinates_2[2][1] - coordinates_1[2][1])

\* calculate_angle: (360 + round(heading - myHeading)) % 360.
calculate_angle(myCoordinates, othersCoordinates, myHeading) ==
    (360 + (calculate_heading(myCoordinates, othersCoordinates) - myHeading)) % 360

\* calculate_speed: 0 when dt <= 0, else round(dx / dt * 3600 / 1000, 1),
\* in tenths of km/h: round(36 * d10 / (10 * dt)).  No tie occurs for
\* dt in 1..3, the elapsed times of the modelled timestamps.
calculate_speed(coordinates_1, tmsStart, coordinates_2, tmsEnd) ==
    LET d10 == calculate_distance(coordinates_1, coordinates_2)
        dt == tmsEnd - tmsStart
    IN  IF dt <= 0 THEN 0
        ELSE (2 * 36 * d10 + 10 * dt) \div (2 * 10 * dt)

(***************************************************************************)
(* dataProcessing.py                                                       *)
(* A snapshot record ("data") is                                           *)
(*   [id, alias, datastreams, zones]                                       *)
(* datastreams: sequence of [id, current_value, at]; current_value is the  *)
(* parsed number, at is the parsed timestamp or None when the stream has   *)
(* no "at".  zones: sequence of [zone_name].                               *)
(***************************************************************************)
\* _extract_pos: the value of the first stream whose id is pos_id, else None.
_extract_pos(response, pos_id) ==
    LET ds == response.datastreams
        hits == {i \in 1..Len(ds) : ds[i].id = pos_id}
    IN  IF hits = {} THEN None
        ELSE Some(ds[CHOOSE i \in hits : \A j \in hits : i <= j].current_value)

\* _extract_zone_names: the zone names that start with zone_type, in order.
StartsWith(name, zone_type) == Len(name) >= 1 /\ name[1] = zone_type

RECURSIVE ZoneNames(_, _)
ZoneNames(zones, zone_type) ==
    IF zones = <<>> THEN <<>>
    ELSE (IF StartsWith(Head(zones).zone_name, zone_type)
          THEN <<Head(zones).zone_name>> ELSE <<>>)
         \o ZoneNames(Tail(zones), zone_type)

_extract_zone_names(response, zone_type) == ZoneNames(response.zones, zone_type)

\* _extract_zone_names raises AttributeError (None.startswith, line 199) when
\* a zone of the record has a null zone_name, whatever the zone_type.
_extract_zone_namesRaises(response) ==
    \E i \in 1..Len(response.zones) : response.zones[i].zone_name = None

\* _extract_tms: the latest "at" of the posX and posY streams, else None.
_extract_tms(response) ==
    LET ds == response.datastreams
        ats == {ds[i].at[1] : i \in {j \in 1..Len(ds) :
                    ds[j].id \in {"posY", "posX"} /\ ds[j].at # None}}
    IN  IF ats = {} THEN None
        ELSE Some(CHOOSE t \in ats : \A u \in ats : u <= t)

\* createObject raises where it extracts the zone names (31-35).
createObjectRaises(data) == _extract_zone_namesRaises(data)

createObject(id, data) ==
    [ aka |-> data.alias,
      soc |-> None,
      pos |-> <<_extract_pos(data, "posX"), _extract_pos(data, "posY")>>,
      tms |-> _extract_tms(data),
      his |-> [pos |-> None, tms |-> None],
      spd |-> None,
      hdg |-> None,
      mvz |-> _extract_zone_names(data, "M"),
      liz |-> _extract_zone_names(data, "L"),
      bsz |-> _extract_zone_names(data, "B"),
      vct |-> <<>> ]

\* updateObject raises TypeError in calculate_distance (line 72), before it
\* changes anything, when a coordinate of the reported or of the stored
\* position is None.  obj['pos'] is always a pair, never None itself, so the
\* second operand of the "or" is always False.
updateObjectRaises(obj, data) ==
    LET pos == <<_extract_pos(data, "posX"), _extract_pos(data, "posY")>>
    IN  ~ (PosKnown(pos) /\ PosKnown(obj.pos))

\* Variant of the condition of line 72 with a strict comparison.
MovedEnough_strict(obj, data) ==
    LET pos == <<_extract_pos(data, "posX"), _extract_pos(data, "posY")>>
    IN  calculate_distance(pos, obj.pos) > POS_FLUCTUATION_FILTER

\* The condition of line 72, when it does not raise.
MovedEnough(obj, data) ==
    LET pos == <<_extract_pos(data, "posX"), _extract_pos(data, "posY")>>
    IN  calculate_distance(pos, obj.pos) >= POS_FLUCTUATION_FILTER

\* Variant of updateObject that keeps the speed when a timestamp is unknown.
updateObject_keeping_speed(obj, data) ==
    LET pos == <<_extract_pos(data, "posX"), _extract_pos(data, "posY")>>
        tms == _extract_tms(data)
        his_pos == obj.pos
        his_tms == obj.tms
        spd == IF tms # None /\ his_tms # None
               THEN Some(calculate_speed(his_pos, his_tms[1], pos, tms[1]))
               ELSE obj.spd
        hdg == IF pos # his_pos
               THEN Some(calculate_heading(his_pos, pos))
               ELSE obj.hdg
        moved == IF MovedEnough(obj, data)
                 THEN [obj EXCEPT !.pos = pos,
                                  !.tms = tms,
                                  !.his = [pos |-> his_pos, tms |-> his_tms],
                                  !.spd = spd,
                                  !.hdg = hdg]
                 ELSE obj
    IN  [moved EXCEPT !.mvz = _extract_zone_names(data, "M"),
                      !.liz = _extract_zone_names(data, "L"),
                      !.bsz = _extract_zone_names(data, "B"),
                      !.vct = <<>>]

\* updateObject raises where it extracts the zone names (105-109), after
\* the commit of 93-102 and before the update of 112-117.
updateObjectRaisesLate(obj, data) == _extract_zone_namesRaises(data)

\* Variant of the first half of updateObject that takes the timestamp of
\* the report when the position did not move enough.
updateObjectCommit_stamping(obj, data) ==
    LET pos == <<_extract_pos(data, "posX"), _extract_pos(data, "posY")>>
        tms == _extract_tms(data)
        his_pos == obj.pos
        his_tms == obj.tms
        spd == IF tms # None /\ his_tms # None
               THEN calculate_speed(his_pos, his_tms[1], pos, tms[1])
               ELSE 0
        hdg == IF pos # his_pos
               THEN Some(calculate_heading(his_pos, pos))
               ELSE obj.hdg
    IN  IF MovedEnough(obj, data)
        THEN [obj EXCEPT !.pos = pos,
                         !.tms = tms,
                         !.his = [pos |-> his_pos, tms |-> his_tms],
                         !.spd = Some(spd),
                         !.hdg = hdg]
        ELSE [obj EXCEPT !.tms = tms]

\* The first half of updateObject (72-102) when the test of line 72 does
\* not raise: the object with the position committed if it moved enough.
updateObjectCommit(obj, data) ==
    LET pos == <<_extract_pos(data, "posX"), _extract_pos(data, "posY")>>
        tms == _extract_tms(data)
        his_pos == obj.pos
        his_tms == obj.tms
        spd == IF tms # None /\ his_tms # None
               THEN calculate_speed(his_pos, his_tms[1], pos, tms[1])
               ELSE 0
        hdg == IF pos # his_pos
               THEN Some(calculate_heading(his_pos, pos))
               ELSE obj.hdg
    IN  IF MovedEnough(obj, data)
        THEN [obj EXCEPT !.pos = pos,
                         !.tms = tms,
                         !.his = [pos |-> his_pos, tms |-> his_tms],
                         !.spd = Some(spd),
                         !.hdg = hdg]
        ELSE obj

\* updateObject when it does not raise: the object after the update.
updateObject(obj, data) ==
    LET moved == updateObjectCommit(obj, data)
    IN  [moved EXCEPT !.mvz = _extract_zone_names(data, "M"),
                      !.liz = _extract_zone_names(data, "L"),
                      !.bsz = _extract_zone_names(data, "B"),
                      !.vct = <<>>]

\* create_vector raises TypeError (in calculate_angle or calculate_distance)
\* when a coordinate of either position is None.
create_vectorRaises(obj, other_obj) ==
    ~ (PosKnown(obj.pos) /\ PosKnown(other_obj.pos))

\* "if my_hdg": a heading of None and a heading of 0 are both false.
Truthy(hdg) == hdg # None /\ hdg[1] # 0

create_vector(obj, other_obj) ==
    LET my_pos == obj.pos
        my_hdg == obj.hdg
        other_pos == other_obj.pos
        direction == IF Truthy(my_hdg)
                     THEN calculate_angle(my_pos, other_pos, my_hdg[1])
                     ELSE -1
    IN  [ d |-> IF obj.bsz # <<>> /\ other_obj.bsz # <<>> THEN -1 ELSE direction,
          r |-> calculate_distance(my_pos, other_pos),
          f |-> other_obj.bsz # <<>> ]

(***************************************************************************)
(* locServerRequests.py                                                    *)
(* GetAllTags returns the decoded answer, or None when the request fails.  *)
(* An answer is Some([results |-> sequence of snapshot records]).          *)
(***************************************************************************)
Stream(i, v, a) == [id |-> i, current_value |-> v, at |-> a]
Zone(n) == [zone_name |-> n]
Tag(i, alias, ds, zs) == [id |-> i, alias |-> alias, datastreams |-> ds, zones |-> zs]

LZ1 == <<"L", "Z", "1">>
LZ3 == <<"L", "Z", "3">>
LZ9 == <<"L", "Z", "9">>
MZ1 == <<"M", "Z", "1">>
BZ1 == <<"B", "Z", "1">>

\* The records the location server may report for a tag.
TagReports(i) ==
    IF i = 1
    THEN { Tag(1, "T1", <<Stream("posX", 0, Some(1)), Stream("posY", 0, Some(1))>>,
                  <<Zone(LZ1), Zone(BZ1)>>),
           Tag(1, "T1", <<Stream("batt", 9, Some(3)), Stream("posX", 3, Some(2)),
                          Stream("posY", 0, Some(1))>>,
                  <<>>),
           Tag(1, "T1", <<Stream("posX", 2, Some(2)), Stream("posY", 0, Some(2))>>,
                  <<Zone(MZ1), Zone(LZ9), Zone(LZ3)>>),
           Tag(1, "T1", <<Stream("posY", -4, None), Stream("posX", 0, None)>>,
                  <<Zone(LZ1)>>),
           Tag(1, "T1", <<>>,
                  <<Zone(MZ1), Zone(LZ9), Zone(LZ3)>>) }
    ELSE { Tag(2, "T2", <<Stream("posX", 0, Some(1)), Stream("posY", 4, Some(1))>>,
                  <<>>),
           Tag(2, "T2", <<Stream("posX", 3, Some(3)), Stream("posY", 0, Some(3))>>,
                  <<Zone(BZ1), Zone(LZ3)>>),
           Tag(2, "T2", <<Stream("posX", 0, Some(1))>>,
                  <<Zone(LZ1)>>),
           Tag(2, "T2", <<Stream("posX", 3, Some(3)), Stream("posY", 0, Some(3))>>,
                  <<Zone(LZ3), Zone(None)>>) }

\* The lists of results: any selection of the two tags, in either order.
ResultLists ==
    {<<>>}
    \cup {<<a>> : a \in TagReports(1) \cup TagReports(2)}
    \cup {<<a, b>> : a \in TagReports(1), b \in TagReports(2)}
    \cup {<<b, a>> : a \in TagReports(1), b \in TagReports(2)}

GetAllTags == {None} \cup {Some([results |-> rs]) : rs \in ResultLists}

(***************************************************************************)
(* awacs_server.py                                                         *)
(* obj_dict is a dict: obj_keys is its keys in insertion order, obj_dict   *)
(* the mapping.                                                            *)
(***************************************************************************)
\* initialize_objects: one object per result; a failed fetch (None) raises
\* AttributeError inside the try and leaves the dict empty; a createObject
\* that raises ends the loop and leaves the objects made before it (52-56).
RECURSIVE InitLoop(_, _, _)
InitLoop(keys, objs, results) ==
    IF results = <<>> THEN [keys |-> keys, objs |-> objs, raised |-> FALSE]
    ELSE LET result == Head(results)
             result_id == result.id
         IN  IF createObjectRaises(result)
             THEN [keys |-> keys, objs |-> objs, raised |-> TRUE]
             ELSE IF result_id \in DOMAIN objs
             THEN InitLoop(keys,
                           [objs EXCEPT ![result_id] = createObject(result_id, result)],
                           Tail(results))
             ELSE InitLoop(Append(keys, result_id),
                           objs @@ (result_id :> createObject(result_id, result)),
                           Tail(results))

initialize_objects(resp) ==
    IF resp = None THEN [keys |-> <<>>, objs |-> <<>>, raised |-> TRUE]
    ELSE InitLoop(<<>>, <<>>, resp[1].results)

\* update_objects: updateObject for every result whose id is a key, in the
\* order of the results; the first exception ends the loop (except at 85).
\* A failed fetch (None) raises AttributeError at response.get.
RECURSIVE UpdateLoop(_, _, _)
UpdateLoop(keys, objs, results) ==
    IF results = <<>> THEN [keys |-> keys, objs |-> objs, raised |-> FALSE]
    ELSE LET result == Head(results)
             result_id == result.id
         IN  IF result_id \in DOMAIN objs
             THEN IF updateObjectRaises(objs[result_id], result)
                  THEN [keys |-> keys, objs |-> objs, raised |-> TRUE]
                  ELSE IF updateObjectRaisesLate(objs[result_id], result)
                  THEN [keys |-> keys,
                        objs |-> [objs EXCEPT
                                    ![result_id] = updateObjectCommit(@, result)],
                        raised |-> TRUE]
                  ELSE UpdateLoop(keys,
                                  [objs EXCEPT ![result_id] = updateObject(@, result)],
                                  Tail(results))
             ELSE UpdateLoop(keys, objs, Tail(results))

\* Variants of update_objects with a plausible slip each.
\* A failed fetch is taken for a sighting without zones.
update_objects_clearing(keys, objs, resp) ==
    IF resp = None
    THEN [keys |-> keys,
          objs |-> [k \in DOMAIN objs |->
                       [objs[k] EXCEPT !.mvz = <<>>, !.liz = <<>>, !.bsz = <<>>]],
          raised |-> TRUE]
    ELSE UpdateLoop(keys, objs, resp[1].results)

\* The vectors of every object are reset, reported or not.
update_objects_resetting(keys, objs, resp) ==
    IF resp = None THEN [keys |-> keys, objs |-> objs, raised |-> TRUE]
    ELSE UpdateLoop(keys, [k \in DOMAIN objs |-> [objs[k] EXCEPT !.vct = <<>>]],
                    resp[1].results)

\* An id that is not a key yet gets an object, as in initialize_objects.
update_objects_creating(keys, objs, resp) ==
    IF resp = None THEN [keys |-> keys, objs |-> objs, raised |-> TRUE]
    ELSE LET fresh == SelectSeq(resp[1].results, LAMBDA d : d.id \notin DOMAIN objs)
             made == InitLoop(keys, objs, fresh)
         IN  UpdateLoop(made.keys, made.objs, resp[1].results)

\* The light zones of an asset that a snapshot does not report expire.
update_objects_expiring(keys, objs, resp) ==
    IF resp = None THEN [keys |-> keys, objs |-> objs, raised |-> TRUE]
    ELSE UpdateLoop(keys,
                    [k \in DOMAIN objs |->
                        IF \E i \in 1..Len(resp[1].results) : resp[1].results[i].id = k
                        THEN objs[k]
                        ELSE [objs[k] EXCEPT !.liz = <<>>]],
                    resp[1].results)

\* An update stage that raised leaves the registry as it found it.
update_objects_atomic(keys, objs, resp) ==
    IF resp = None THEN [keys |-> keys, objs |-> objs, raised |-> TRUE]
    ELSE LET r == UpdateLoop(keys, objs, resp[1].results)
         IN  IF r.raised THEN [keys |-> keys, objs |-> objs, raised |-> TRUE] ELSE r

update_objects(keys, objs, resp) ==
    IF resp = None THEN [keys |-> keys, objs |-> objs, raised |-> TRUE]
    ELSE UpdateLoop(keys, objs, resp[1].results)

\* create_vectors: for every key in dict order, the vectors to every other
\* key in dict order, assigned after the inner loop; the first exception
\* ends both loops (except at 119).
Others(keys, this_id) == SelectSeq(keys, LAMBDA k : k # this_id)

RECURSIVE VectorsLoop(_, _, _)
VectorsLoop(todo, keys, objs) ==
    IF todo = <<>> THEN [objs |-> objs, raised |-> FALSE]
    ELSE LET this_id == Head(todo)
             others == Others(keys, this_id)
         IN  IF \E i \in 1..Len(others) :
                    create_vectorRaises(objs[this_id], objs[others[i]])
             THEN [objs |-> objs, raised |-> TRUE]
             ELSE VectorsLoop(Tail(todo), keys,
                      [objs EXCEPT ![this_id].vct =
                          [i \in 1..Len(others) |->
                              create_vector(objs[this_id], objs[others[i]])]])

\* Variant of create_vectors that appends to the vectors a record holds.
RECURSIVE VectorsLoop_appending(_, _, _)
VectorsLoop_appending(todo, keys, objs) ==
    IF todo = <<>> THEN [objs |-> objs, raised |-> FALSE]
    ELSE LET this_id == Head(todo)
             others == Others(keys, this_id)
         IN  IF \E i \in 1..Len(others) :
                    create_vectorRaises(objs[this_id], objs[others[i]])
             THEN [objs |-> objs, raised |-> TRUE]
             ELSE VectorsLoop_appending(Tail(todo), keys,
                      [objs EXCEPT ![this_id].vct =
                          objs[this_id].vct \o
                          [i \in 1..Len(others) |->
                              create_vector(objs[this_id], objs[others[i]])]])

create_vectors_appending(keys, objs) == VectorsLoop_appending(keys, keys, objs)

create_vectors(keys, objs) == VectorsLoop(keys, keys, objs)

\* The message send_telemetry prints for a failed publish (line 148).
TopicError(key) == "topic " \o ToString(key)

\* Variant of send_telemetry that gives up at the first failed publish.
send_telemetry_abandoning(keys, objs, failed) ==
    LET last == IF failed = {} THEN Len(keys)
                ELSE CHOOSE i \in failed : \A j \in failed : i <= j
    IN  [published |-> [i \in 1..last |->
                          [topic |-> ToString(keys[i]), payload |-> objs[keys[i]]]],
         errors |-> {TopicError(keys[i]) : i \in {j \in failed : j <= last}}]

\* Variant of send_telemetry that publishes the records as they are before
\* the vector stage of the iteration.
send_telemetry_unvectored(keys, objs, failed) ==
    [published |-> [i \in 1..Len(keys) |->
                      [topic |-> ToString(keys[i]),
                       payload |-> [objs[keys[i]] EXCEPT !.vct = <<>>]]],
     errors |-> {TopicError(keys[i]) : i \in failed}]

\* send_telemetry: one pub.single per key in dict order, topic str(key),
\* payload the object.  The publishes of the set failed raise; the exception
\* is caught and printed inside the loop (146-148).
send_telemetry(keys, objs, failed) ==
    [published |-> [i \in 1..Len(keys) |->
                      [topic |-> ToString(keys[i]), payload |-> objs[keys[i]]]],
     errors |-> {TopicError(keys[i]) : i \in failed}]

(***************************************************************************)
(* lightsController_gpioserver.py                                          *)
(***************************************************************************)
\* penetrated_zones of check_zones.
penetrated_zones(objs) ==
    UNION {{objs[k].liz[i] : i \in 1..Len(objs[k].liz)} : k \in DOMAIN objs}

\* Variant of check_zones with the polarity inverted.
check_zones_inverted(objs) ==
    [i \in 1..Len(ZONE_PIN_MAP) |->
        [pin |-> ZONE_PIN_MAP[i].pin,
         state |-> ZONE_PIN_MAP[i].zone \in penetrated_zones(objs)]]

\* check_zones: the commands (pin, state), one per entry of ZONE_PIN_MAP.
check_zones(objs) ==
    [i \in 1..Len(ZONE_PIN_MAP) |->
        [pin |-> ZONE_PIN_MAP[i].pin,
         state |-> ZONE_PIN_MAP[i].zone \notin penetrated_zones(objs)]]

\* set_all_lights: the same state for every pin of ZONE_PIN_MAP.
set_all_lights(state) ==
    [i \in 1..Len(ZONE_PIN_MAP) |-> [pin |-> ZONE_PIN_MAP[i].pin, state |-> state]]

\* _control_light_pin catches requests.exceptions.RequestException only.  A
\* run of commands is therefore cut short by the first post that raises any
\* other exception: crash = 0 when no post does, else the index of that post.
Posted(commands, crash) ==
    IF crash = 0 THEN commands ELSE SubSeq(commands, 1, crash)

\* The ways some of n requests in a row fail: none, the first one, or all.
FailurePatterns(n) == {{}, {1} \cap (1..n), 1..n}

\* The message _control_light_pin prints for a failed command (line 83).
PinError(pin) == "pin " \o ToString(pin)

\* Variant of _control_light_pins that gives up at the first failed command.
_control_light_pins_abandoning(commands, failed, crash) ==
    LET done == Posted(commands, crash)
        stop == {i \in failed : i <= Len(done)}
        last == IF stop = {} THEN Len(done)
                ELSE CHOOSE i \in stop : \A j \in stop : i <= j
    IN  [cmds |-> SubSeq(done, 1, last),
         errors |-> {PinError(done[i].pin) : i \in {j \in stop : j <= last}}]

\* A run of _control_light_pin calls, one per command.  The posts of the set
\* failed end in a RequestException (request error, or raise_for_status on a
\* non-2xx answer): it is caught and printed (81-83) and the caller goes on
\* to the next command.  The post number crash, if any, raises something
\* else, which nothing catches here.
_control_light_pins(commands, failed, crash) ==
    LET done == Posted(commands, crash)
    IN  [cmds |-> done,
         errors |-> {PinError(done[i].pin) :
                        i \in {j \in failed : j <= Len(done) /\ j # crash}}]

(***************************************************************************)
(* The processes around the server                                         *)
(***************************************************************************)
\* The pins of ZONE_PIN_MAP.
Pins == {ZONE_PIN_MAP[i].pin : i \in 1..Len(ZONE_PIN_MAP)}

VARIABLES
    leds,              \* gpio_control.py: pin -> state of its LED (None: no LED
                       \* object yet, Some(TRUE): on, Some(FALSE): off)
    toggle_flag_file,  \* alarm.py: /tmp/alarm_toggle.flag exists
    stop_event,        \* alarm.py: the Event is set
    toggle_thread,     \* alarm.py: None, or the number of the latest Thread
    threads,           \* alarm.py: the Threads started so far, each by where
                       \* it is in toggle_led: "test" (19), "off1" (20),
                       \* "on1" (22), "off2" (24), "on2" (26), "done"
    led,               \* alarm.py: the last action on the LED: "on", "off",
                       \* or "init" (LED(pin_number), no action yet)
    alarm_pc,          \* alarm.py: where run() is: "poll" (49), "present"
                       \* (50), "clear" (51), "start" (52-53), "absent" (55),
                       \* "set" (56), "join" (57), "on" (58), "sleep" (59),
                       \* "handler" (handle_signal, 33-35), "exited"
    found              \* alarm.py: what check_flag_file returned at 49

\* The state of the GPIO server and of the vehicle alarm utility.  They are
\* followed in SpecLights and SpecAlarm; the steps of main() do not write
\* them.
alarm == <<toggle_flag_file, stop_event, toggle_thread, threads, led, alarm_pc, found>>

outside == <<leds, alarm>>

\* gpio_control.py line 6: leds = {}.
InitGpio == leds = [p \in Pins |-> None]

\* alarm.py lines 8-15, before run(); the flag file does not exist yet.
InitAlarm ==
    /\ toggle_flag_file = FALSE
    /\ stop_event = FALSE
    /\ toggle_thread = None
    /\ threads = <<>>
    /\ led = "init"
    /\ alarm_pc = "poll"
    /\ found = FALSE

InitOutside == InitGpio /\ InitAlarm

(***************************************************************************)
(* main(): the state of the process                                        *)
(***************************************************************************)
\* Number of iterations of the working loop that are explored.
MaxCycles == 2

VARIABLES
    pc,         \* where main() is: "start", "initialize", "update", "vectors",
                \* "zones", "telemetry" (the next call), "exited" (main
                \* returned) or "terminated" (the process was stopped)
    cycle,      \* iterations of the working loop started so far
    obj_keys,   \* keys of obj_dict in insertion order
    obj_dict,   \* key -> object
    response,   \* the answer GetAllTags gave in this iteration
    log,        \* who printed a failure since the latest fetch: "fetch"
                \* (GetAllTags), "initialize", "update", "vectors", "main",
                \* "pin <p>" (_control_light_pin), "topic <k>" (send_telemetry)
    cmds,       \* the commands posted by the latest set_all_lights/check_zones
    published   \* the (topic, payload) list of the latest send_telemetry

\* The state of main().
server == <<pc, cycle, obj_keys, obj_dict, response, log, cmds, published>>

vars == <<pc, cycle, obj_keys, obj_dict, response, log, cmds, published, outside>>

Init ==
    /\ pc = "start"
    /\ cycle = 0
    /\ obj_keys = <<>>
    /\ obj_dict = <<>>
    /\ response = None
    /\ log = {}
    /\ cmds = <<>>
    /\ published = <<>>
    /\ InitOutside

\* main 165-166: set_all_lights(False); set_all_lights(True).
SetAllLights ==
    /\ pc = "start"
    /\ \E crash \in 0..(2 * Len(ZONE_PIN_MAP)),
          failed \in FailurePatterns(2 * Len(ZONE_PIN_MAP)) :
          LET r == _control_light_pins(
                       set_all_lights(FALSE) \o set_all_lights(TRUE), failed, crash)
          IN  /\ cmds' = r.cmds
              /\ pc' = IF crash = 0 THEN "initialize" ELSE "exited"
              /\ log' = r.errors \cup (IF crash = 0 THEN {} ELSE {"main"})
    /\ UNCHANGED <<cycle, obj_keys, obj_dict, response, published, outside>>

\* main 169: obj_dict = initialize_objects().
InitializeObjects ==
    /\ pc = "initialize"
    /\ \E resp \in GetAllTags :
          LET r == initialize_objects(resp)
          IN  /\ obj_keys' = r.keys
              /\ obj_dict' = r.objs
              /\ log' = (IF resp = None THEN {"fetch"} ELSE {})
                         \cup (IF r.raised THEN {"initialize"} ELSE {})
    /\ pc' = "update"
    /\ UNCHANGED <<cycle, response, cmds, published, outside>>

\* main 174-177: sleep(0.15); update_objects(obj_dict).  GetAllTags prints
\* its own message when the request fails.
UpdateObjects ==
    /\ pc = "update"
    /\ cycle < MaxCycles
    /\ cycle' = cycle + 1
    /\ \E resp \in GetAllTags :
          LET r == update_objects(obj_keys, obj_dict, resp)
          IN  /\ response' = resp
              /\ obj_keys' = r.keys
              /\ obj_dict' = r.objs
              /\ log' = (IF resp = None THEN {"fetch"} ELSE {})
                         \cup (IF r.raised THEN {"update"} ELSE {})
    /\ pc' = "vectors"
    /\ UNCHANGED <<cmds, published, outside>>

\* main 180: create_vectors(obj_dict).
CreateVectors ==
    /\ pc = "vectors"
    /\ LET r == create_vectors(obj_keys, obj_dict)
       IN  /\ obj_dict' = r.objs
           /\ log' = IF r.raised THEN log \cup {"vectors"} ELSE log
    /\ pc' = "zones"
    /\ UNCHANGED <<cycle, obj_keys, response, cmds, published, outside>>

\* main 184: check_zones(obj_dict).  An exception that _control_light_pin
\* does not catch leaves the while loop and is printed at line 191.
CheckZones ==
    /\ pc = "zones"
    /\ \E crash \in 0..Len(ZONE_PIN_MAP),
          failed \in FailurePatterns(Len(ZONE_PIN_MAP)) :
          LET r == _control_light_pins(check_zones(obj_dict), failed, crash)
          IN  /\ cmds' = r.cmds
              /\ pc' = IF crash = 0 THEN "telemetry" ELSE "exited"
              /\ log' = log \cup r.errors \cup (IF crash = 0 THEN {} ELSE {"main"})
    /\ UNCHANGED <<cycle, obj_keys, obj_dict, response, published, outside>>

\* main 187: send_telemetry(obj_dict), then back to the top of the loop.
SendTelemetry ==
    /\ pc = "telemetry"
    /\ \E failed \in FailurePatterns(Len(obj_keys)) :
          LET r == send_telemetry(obj_keys, obj_dict, failed)
          IN  /\ published' = r.published
              /\ log' = log \cup r.errors
    /\ response' = None
    /\ pc' = "update"
    /\ UNCHANGED <<cycle, obj_keys, obj_dict, cmds, outside>>

Next ==
    \/ SetAllLights
    \/ InitializeObjects
    \/ UpdateObjects
    \/ CreateVectors
    \/ CheckZones
    \/ SendTelemetry

Spec == Init /\ [][Next]_vars

(***************************************************************************)
(* The process under a termination request                                 *)
(***************************************************************************)
\* The process is stopped from outside (SIGTERM, or SIGINT raising
\* KeyboardInterrupt, which "except Exception" at 189 does not catch): main()
\* installs no handler and has no finally clause, so the process ends where
\* it is and sends no further command.
Terminate ==
    /\ pc \notin {"exited", "terminated"}
    /\ pc' = "terminated"
    /\ UNCHANGED <<cycle, obj_keys, obj_dict, response, log, cmds, published, outside>>

NextTerminate ==
    \/ Next
    \/ Terminate

SpecTerminate == Init /\ [][NextTerminate]_vars

(***************************************************************************)
(* The vector stage on registries of three assets                          *)
(***************************************************************************)
\* The records the location server may report for three tags that are far
\* apart: tag 1 near the origin, tag 2 ten units up the y axis, tag 3 aside
\* or 29 units down the y axis.
VectorReports(i) ==
    IF i = 1
    THEN { Tag(1, "T1", <<Stream("posX", 0, Some(1)), Stream("posY", 4, Some(1))>>,
                  <<>>),
           Tag(1, "T1", <<Stream("posX", 0, Some(2)), Stream("posY", 0, Some(2))>>,
                  <<>>),
           Tag(1, "T1", <<Stream("posX", 0, Some(2)), Stream("posY", 0, Some(2))>>,
                  <<Zone(BZ1)>>) }
    ELSE IF i = 2
    THEN { Tag(2, "T2", <<Stream("posX", 0, Some(1)), Stream("posY", 40, Some(1))>>,
                  <<>>),
           Tag(2, "T2", <<Stream("posX", 0, Some(1)), Stream("posY", 40, Some(1))>>,
                  <<Zone(BZ1), Zone(LZ1)>>),
           Tag(2, "T2", <<Stream("posX", 4, Some(2)), Stream("posY", 40, Some(2))>>,
                  <<>>) }
    ELSE { Tag(3, "T3", <<Stream("posX", 4, Some(1)), Stream("posY", 4, Some(1))>>,
                  <<Zone(LZ3)>>),
           Tag(3, "T3", <<Stream("posX", 8, Some(3)), Stream("posY", 0, Some(3))>>,
                  <<>>),
           Tag(3, "T3", <<Stream("posX", 3, Some(2)), Stream("posY", -112, Some(2))>>,
                  <<>>) }

\* The sequences that list every element of the set S exactly once.
Orders(S) ==
    {s \in [1..Cardinality(S) -> S] : \A i, j \in DOMAIN s : s[i] = s[j] => i = j}

\* The initial snapshots: one record per tag, listed in any order.
VectorInitLists ==
    UNION {Orders({a, b, c}) : a \in VectorReports(1), b \in VectorReports(2),
                               c \in VectorReports(3)}

\* The snapshots of the first iteration: empty, or one record per tag.
VectorUpdateLists ==
    {<<>>} \cup {<<a, b, c>> : a \in VectorReports(1), b \in VectorReports(2),
                               c \in VectorReports(3)}

\* The process as main() has it when it calls create_vectors for the first
\* time (line 180): the lights have been set, initialize_objects has built
\* the registry from one snapshot and update_objects has applied another.
InitVectors ==
    /\ pc = "vectors"
    /\ cycle = 1
    /\ \E rs0 \in VectorInitLists, rs1 \in VectorUpdateLists :
          LET r0 == initialize_objects(Some([results |-> rs0]))
              r1 == update_objects(r0.keys, r0.objs, Some([results |-> rs1]))
          IN  /\ obj_keys = r1.keys
              /\ obj_dict = r1.objs
              /\ response = Some([results |-> rs1])
              /\ log = IF r1.raised THEN {"update"} ELSE {}
    /\ cmds = set_all_lights(FALSE) \o set_all_lights(TRUE)
    /\ published = <<>>
    /\ InitOutside

\* main 180-187: the rest of the iteration.
NextVectors ==
    \/ CreateVectors
    \/ CheckZones
    \/ SendTelemetry

SpecVectors == InitVectors /\ [][NextVectors]_vars

(***************************************************************************)
(* The server and the GPIO server, for ever                                *)
(***************************************************************************)
\* Variant of do_POST that only ever switches an LED on.
do_POST_on_only(ls, cmd) ==
    IF cmd.state THEN [ls EXCEPT ![cmd.pin] = Some(TRUE)] ELSE ls

\* gpio_control.py do_POST 43-50 on a valid payload: the LED of the pin is
\* created if need be and switched to the state asked for.
do_POST(ls, cmd) == [ls EXCEPT ![cmd.pin] = Some(cmd.state)]

\* gpio_control.py run_server: the requests are served one after the other.
\* Of the commands the server posted, those numbered in reached arrive.
RECURSIVE ServeFrom(_, _, _, _)
ServeFrom(ls, commands, reached, i) ==
    IF i > Len(commands) THEN ls
    ELSE ServeFrom(IF i \in reached THEN do_POST(ls, commands[i]) ELSE ls,
                   commands, reached, i + 1)

run_server(ls, commands, reached) == ServeFrom(ls, commands, reached, 1)

\* A post that raised did not arrive, or it arrived and its answer did not:
\* either all the posts of a run that raised are lost, or none is.
LostPosts(failed, crash) == {{}, failed \cup ({crash} \ {0})}

\* Two tags that stay where they are and enter and leave light zones.
LightReports(i) ==
    IF i = 1
    THEN { Tag(1, "T1", <<Stream("posX", 0, Some(1)), Stream("posY", 0, Some(1))>>,
                  <<Zone(LZ1)>>),
           Tag(1, "T1", <<Stream("posX", 0, Some(1)), Stream("posY", 0, Some(1))>>,
                  <<>>) }
    ELSE { Tag(2, "T2", <<Stream("posX", 0, Some(1)), Stream("posY", 40, Some(1))>>,
                  <<Zone(LZ3)>>),
           Tag(2, "T2", <<Stream("posX", 0, Some(1)), Stream("posY", 40, Some(1))>>,
                  <<>>) }

\* What GetAllTags returns: nothing, tag 1 alone, or both tags.
GetAllTagsLights ==
    {None}
    \cup {Some([results |-> <<a>>]) : a \in LightReports(1)}
    \cup {Some([results |-> <<a, b>>]) : a \in LightReports(1), b \in LightReports(2)}

\* The state before the working loop: both tags in the registry, and the
\* LEDs as the posts of the two set_all_lights left them (all of them
\* arrived, none did, or those of the first call only).
InitLights ==
    /\ pc = "update"
    /\ cycle = 0
    /\ \E b \in LightReports(2) :
          LET r0 == initialize_objects(
                       Some([results |->
                              <<CHOOSE a \in LightReports(1) : a.zones # <<>>, b>>]))
          IN  /\ obj_keys = r0.keys
              /\ obj_dict = r0.objs
    /\ response = None
    /\ log = {}
    /\ cmds = set_all_lights(FALSE) \o set_all_lights(TRUE)
    /\ published = <<>>
    /\ \E reached \in {1..Len(cmds), {}, 1..Len(ZONE_PIN_MAP)} :
          leds = run_server([p \in Pins |-> None], cmds, reached)
    /\ InitAlarm

\* main 174-177, in a loop that is not cut after MaxCycles iterations.
UpdateObjectsLights ==
    /\ pc = "update"
    /\ \E resp \in GetAllTagsLights :
          LET r == update_objects(obj_keys, obj_dict, resp)
          IN  /\ response' = resp
              /\ obj_keys' = r.keys
              /\ obj_dict' = r.objs
              /\ log' = (IF resp = None THEN {"fetch"} ELSE {})
                         \cup (IF r.raised THEN {"update"} ELSE {})
    /\ pc' = "vectors"
    /\ UNCHANGED <<cycle, cmds, published, outside>>

\* main 183 with the GPIO server at the other end of the posts.
CheckZonesPosted ==
    /\ pc = "zones"
    /\ \E crash \in 0..Len(ZONE_PIN_MAP),
          failed \in FailurePatterns(Len(ZONE_PIN_MAP)) :
          \E lost \in LostPosts(failed, crash) :
             LET r == _control_light_pins(check_zones(obj_dict), failed, crash)
             IN  /\ cmds' = r.cmds
                 /\ pc' = IF crash = 0 THEN "telemetry" ELSE "exited"
                 /\ log' = log \cup r.errors \cup (IF crash = 0 THEN {} ELSE {"main"})
                 /\ leds' = run_server(leds, r.cmds, (1..Len(r.cmds)) \ lost)
    /\ UNCHANGED <<cycle, obj_keys, obj_dict, response, published, alarm>>

NextLights ==
    \/ UpdateObjectsLights
    \/ CreateVectors
    \/ CheckZonesPosted
    \/ SendTelemetry

\* main() is one sequential loop: a stage that can run does run.
SpecLights == InitLights /\ [][NextLights]_vars /\ WF_vars(NextLights)

(***************************************************************************)
(* alarm.py: the polling loop, the toggle thread and the flag file         *)
(***************************************************************************)
\* Number of Thread objects run() creates in the behaviours explored.
MaxThreads == 2

\* Thread.is_alive() of every Thread started so far.
Alive == {i \in 1..Len(threads) : threads[i] # "done"}

\* "toggle_thread and toggle_thread.is_alive()" (lines 34, 50, 55).
ToggleThreadAlive == toggle_thread # None /\ toggle_thread[1] \in Alive

\* Another process creates or removes the flag file.
CreateFlagFile ==
    /\ ~ toggle_flag_file
    /\ toggle_flag_file' = TRUE
    /\ UNCHANGED <<server, leds, stop_event, toggle_thread, threads, led,
                   alarm_pc, found>>

RemoveFlagFile ==
    /\ toggle_flag_file
    /\ toggle_flag_file' = FALSE
    /\ UNCHANGED <<server, leds, stop_event, toggle_thread, threads, led,
                   alarm_pc, found>>

\* run 49: if check_flag_file().
check_flag_file ==
    /\ alarm_pc = "poll"
    /\ found' = toggle_flag_file
    /\ alarm_pc' = IF toggle_flag_file THEN "present" ELSE "absent"
    /\ UNCHANGED <<server, leds, toggle_flag_file, stop_event, toggle_thread,
                   threads, led>>

\* run 50: if toggle_thread is None or not toggle_thread.is_alive().
run_present ==
    /\ alarm_pc = "present"
    /\ alarm_pc' = IF ToggleThreadAlive THEN "sleep" ELSE "clear"
    /\ UNCHANGED <<server, leds, toggle_flag_file, stop_event, toggle_thread,
                   threads, led, found>>

\* run 51: stop_event.clear().
run_clear ==
    /\ alarm_pc = "clear"
    /\ stop_event' = FALSE
    /\ alarm_pc' = "start"
    /\ UNCHANGED <<server, leds, toggle_flag_file, toggle_thread, threads, led,
                   found>>

\* run 52-53: toggle_thread = Thread(target=toggle_led); toggle_thread.start().
run_start ==
    /\ alarm_pc = "start"
    /\ Len(threads) < MaxThreads
    /\ threads' = Append(threads, "test")
    /\ toggle_thread' = Some(Len(threads) + 1)
    /\ alarm_pc' = "sleep"
    /\ UNCHANGED <<server, leds, toggle_flag_file, stop_event, led, found>>

\* run 55: if toggle_thread and toggle_thread.is_alive().
run_absent ==
    /\ alarm_pc = "absent"
    /\ alarm_pc' = IF ToggleThreadAlive THEN "set" ELSE "on"
    /\ UNCHANGED <<server, leds, toggle_flag_file, stop_event, toggle_thread,
                   threads, led, found>>

\* run 56: stop_event.set().
run_set ==
    /\ alarm_pc = "set"
    /\ stop_event' = TRUE
    /\ alarm_pc' = "join"
    /\ UNCHANGED <<server, leds, toggle_flag_file, toggle_thread, threads, led,
                   found>>

\* Variant of line 57 that does not wait for the thread.
run_join_not_waiting ==
    /\ alarm_pc = "join"
    /\ alarm_pc' = "on"
    /\ UNCHANGED <<server, leds, toggle_flag_file, stop_event, toggle_thread,
                   threads, led, found>>

\* run 57: toggle_thread.join() returns when the thread has ended.
run_join ==
    /\ alarm_pc = "join"
    /\ ~ ToggleThreadAlive
    /\ alarm_pc' = "on"
    /\ UNCHANGED <<server, leds, toggle_flag_file, stop_event, toggle_thread,
                   threads, led, found>>

\* run 58: led.on().
run_led_on ==
    /\ alarm_pc = "on"
    /\ led' = "on"
    /\ alarm_pc' = "sleep"
    /\ UNCHANGED <<server, leds, toggle_flag_file, stop_event, toggle_thread,
                   threads, found>>

\* run 59: time.sleep(0.1), and back to the top of the loop.
run_sleep ==
    /\ alarm_pc = "sleep"
    /\ alarm_pc' = "poll"
    /\ UNCHANGED <<server, leds, toggle_flag_file, stop_event, toggle_thread,
                   threads, led, found>>

\* toggle_led 19-28, one statement of one thread at a time (the sleeps
\* change nothing).
toggle_led ==
    \E i \in 1..Len(threads) :
       /\ threads[i] # "done"
       /\ threads' = [threads EXCEPT ![i] =
                         CASE @ = "test" -> IF stop_event THEN "done" ELSE "off1"
                           [] @ = "off1" -> "on1"
                           [] @ = "on1"  -> "off2"
                           [] @ = "off2" -> "on2"
                           [] @ = "on2"  -> "test"]
       /\ led' = CASE threads[i] = "test" -> led
                   [] threads[i] \in {"off1", "off2"} -> "off"
                   [] threads[i] \in {"on1", "on2"} -> "on"
       /\ UNCHANGED <<server, leds, toggle_flag_file, stop_event, toggle_thread,
                      alarm_pc, found>>

\* handle_signal 33: SIGTERM interrupts run() wherever it is;
\* stop_event.set().
handle_signal ==
    /\ alarm_pc \notin {"handler", "exited"}
    /\ stop_event' = TRUE
    /\ alarm_pc' = "handler"
    /\ UNCHANGED <<server, leds, toggle_flag_file, toggle_thread, threads, led,
                   found>>

\* handle_signal 34-38: join the thread if it is alive, led.on(),
\* os.remove(toggle_flag_file), exit(0).  os.remove raises when the file
\* does not exist; the process ends either way.
handle_signal_exit ==
    /\ alarm_pc = "handler"
    /\ ~ ToggleThreadAlive
    /\ led' = "on"
    /\ toggle_flag_file' = FALSE
    /\ alarm_pc' = "exited"
    /\ UNCHANGED <<server, leds, stop_event, toggle_thread, threads, found>>

NextAlarm ==
    \/ CreateFlagFile
    \/ RemoveFlagFile
    \/ check_flag_file
    \/ run_present
    \/ run_clear
    \/ run_start
    \/ run_absent
    \/ run_set
    \/ run_join
    \/ run_led_on
    \/ run_sleep
    \/ toggle_led
    \/ handle_signal
    \/ handle_signal_exit

SpecAlarm == Init /\ [][NextAlarm]_vars

(***************************************************************************)
(* Vocabulary of the properties                                            *)
(***************************************************************************)
Results(resp) == IF resp = None THEN <<>> ELSE resp[1].results

Reported(data) == <<_extract_pos(data, "posX"), _extract_pos(data, "posY")>>

\* The step of the loop that runs update_objects.
UpdateStep == pc = "update" /\ pc' = "vectors"

\* The object new is old after a commit of the position reported by data.
Committed(old, new, data) ==
    /\ new.pos = Reported(data)
    /\ new.tms = _extract_tms(data)
    /\ new.his = [pos |-> old.pos, tms |-> old.tms]

KinematicsKept(old, new) ==
    /\ new.pos = old.pos
    /\ new.tms = old.tms
    /\ new.his = old.his
    /\ new.spd = old.spd
    /\ new.hdg = old.hdg

ZonesRefreshed(new, data) ==
    /\ new.mvz = _extract_zone_names(data, "M")
    /\ new.liz = _extract_zone_names(data, "L")
    /\ new.bsz = _extract_zone_names(data, "B")

\* The exact Euclidean distance of two known points is >= 0.8 units:
\* sqrt(dx^2 + dy^2) / 4 >= 8 / 10, squared and cleared of fractions.
EuclideanAtLeastFilter(p, q) ==
    25 * ((p[1][1] - q[1][1]) * (p[1][1] - q[1][1])
          + (p[2][1] - q[2][1]) * (p[2][1] - q[2][1])) >= 256

(***************************************************************************)
(* C1.  For every asset that is in the registry and in the snapshot and    *)
(* whose prior position is known, updateObject commits the reported        *)
(* position exactly when the Euclidean distance between the reported and   *)
(* the prior position is >= 0.8; when it does not commit, pos, tms, his,   *)
(* spd and hdg keep their values, mvz, liz and bsz are replaced from the   *)
(* snapshot and vct is reset to empty.  Stated for the update stages in    *)
(* which no updateObject raised, so every record reports a position.       *)
(* The program compares the distance rounded to one decimal: a move of     *)
(* 0.75 rounds to 0.8 and is committed.                                    *)
(***************************************************************************)
C1_CommitIffEuclideanDistance ==
    [][ (UpdateStep /\ "update" \notin log') =>
          \A i \in 1..Len(Results(response')) :
             LET data == Results(response')[i]
                 k == data.id
             IN  (k \in DOMAIN obj_dict /\ PosKnown(obj_dict[k].pos)) =>
                   /\ Committed(obj_dict[k], obj_dict'[k], data)
                         <=> EuclideanAtLeastFilter(Reported(data), obj_dict[k].pos)
                   /\ ~ Committed(obj_dict[k], obj_dict'[k], data) =>
                         /\ KinematicsKept(obj_dict[k], obj_dict'[k])
                         /\ ZonesRefreshed(obj_dict'[k], data)
                         /\ obj_dict'[k].vct = <<>> ]_vars

(***************************************************************************)
(* C2.  For every asset of the registry whose prior position is unknown    *)
(* (created from a record without position streams), an update with a      *)
(* record that carries a position commits: afterwards pos and tms hold the *)
(* reported values and his holds the prior (unknown) pair.                 *)
(* The program raises TypeError in calculate_distance instead.             *)
(***************************************************************************)
C2_UnknownPriorCommits ==
    [][ UpdateStep =>
          \A i \in 1..Len(Results(response')) :
             LET data == Results(response')[i]
                 k == data.id
             IN  (/\ k \in DOMAIN obj_dict
                  /\ obj_dict[k].pos = <<None, None>>
                  /\ PosKnown(Reported(data))) =>
                   Committed(obj_dict[k], obj_dict'[k], data) ]_vars

(***************************************************************************)
(* C3.  At the end of every cycle (after create_vectors has run), in a     *)
(* registry of n >= 1 assets every asset's vct has length n - 1, whatever  *)
(* positions (known or unknown) the assets have.                           *)
(* With an asset of unknown position create_vector raises and no vct is    *)
(* assigned.                                                               *)
(***************************************************************************)
AfterVectors == pc \in {"zones", "telemetry"} \/ (pc = "update" /\ cycle >= 1)

C3_VectorsLength ==
    AfterVectors =>
        \A k \in DOMAIN obj_dict : Len(obj_dict[k].vct) = Len(obj_keys) - 1

(***************************************************************************)
(* C4.  For every ordered pair (A, B) of distinct assets, the direction    *)
(* create_vector stores is -1 if and only if the heading of A is unknown   *)
(* or both A and B have non-empty bad-signal zones; in every other case    *)
(* (every known heading) it is round(bearing(A.pos, B.pos) - A.hdg) mod    *)
(* 360, in [0, 360).  Stated on the vectors create_vectors has just stored.*)
(* The program tests "if my_hdg": a known heading of 0 gives -1 as well.   *)
(***************************************************************************)
C4_DirectionSentinel ==
    (pc = "zones" /\ "vectors" \notin log) =>
        \A a \in DOMAIN obj_dict :
           \A i \in 1..Len(Others(obj_keys, a)) :
              LET A == obj_dict[a]
                  B == obj_dict[Others(obj_keys, a)[i]]
                  d == A.vct[i].d
                  sentinel == A.hdg = None \/ (A.bsz # <<>> /\ B.bsz # <<>>)
              IN  /\ d = -1 <=> sentinel
                  /\ ~ sentinel =>
                        /\ d = (calculate_heading(A.pos, B.pos) - A.hdg[1]) % 360
                        /\ 0 <= d /\ d < 360

(***************************************************************************)
(* C5.  In every cycle, for every zone of the zone-to-pin map, check_zones *)
(* commands ON (true) if no asset of the registry lists the zone in its    *)
(* light zones and OFF (false) if at least one does; zones that are not in *)
(* the map produce no command.                                             *)
(***************************************************************************)
ZoneListed(objs, zone) ==
    \E k \in DOMAIN objs : \E j \in 1..Len(objs[k].liz) : objs[k].liz[j] = zone

C5_ZoneCommands ==
    /\ (pc = "telemetry" \/ (pc = "exited" /\ cycle >= 1)) =>
          /\ Len(cmds) <= Len(ZONE_PIN_MAP)
          /\ \A i \in 1..Len(cmds) :
                /\ cmds[i].pin = ZONE_PIN_MAP[i].pin
                /\ cmds[i].state = ~ ZoneListed(obj_dict, ZONE_PIN_MAP[i].zone)
    /\ pc = "telemetry" => Len(cmds) = Len(ZONE_PIN_MAP)

\* check_zones has run on a registry that lists a mapped zone, leaves
\* another mapped zone free and lists a zone that is not in the map.
C5_Witness ==
    /\ pc = "telemetry"
    /\ ZoneListed(obj_dict, LZ9)
    /\ \E i, j \in 1..Len(cmds) : cmds[i].state /\ ~ cmds[j].state

(***************************************************************************)
(* C6.  A failure raised inside any stage of a cycle never ends the main   *)
(* loop: after the failure the loop goes on to the next cycle.             *)
(* The try of main() encloses the while loop: an exception that a stage    *)
(* does not catch itself (print at line 183, or in _control_light_pin      *)
(* anything that is not a RequestException) leaves the loop for good.      *)
(***************************************************************************)
C6_LoopNeverEnds == cycle >= 1 => pc # "exited"

(***************************************************************************)
(* C7.  When the fetch fails (GetAllTags returns None) or returns no       *)
(* results, update_objects changes nothing in the registry, the cycle goes *)
(* on to the vector stage, the vector stage leaves the retained registry   *)
(* as the previous cycle left it, and the payloads published in that cycle *)
(* equal those of the previous cycle.                                      *)
(***************************************************************************)
NothingFetched(resp) == resp = None \/ resp[1].results = <<>>

C7_FailedFetchRetainsState ==
    [][ /\ UpdateStep /\ NothingFetched(response') =>
              /\ obj_keys' = obj_keys
              /\ obj_dict' = obj_dict
        /\ (pc = "vectors" /\ NothingFetched(response)) =>
              /\ pc' = "zones"
              /\ cycle >= 2 => obj_dict' = obj_dict
        /\ (pc = "telemetry" /\ NothingFetched(response) /\ cycle >= 2) =>
              /\ pc' = "update"
              /\ published' = published
              /\ Len(published') = Len(obj_keys) ]_vars

\* A cycle whose fetch failed has published, after an earlier cycle, a
\* registry that holds vectors and light zones.
C7_Witness ==
    /\ pc = "update"
    /\ cycle >= 2
    /\ "fetch" \in log
    /\ \E i \in 1..Len(published) :
          published[i].payload.vct # <<>> /\ published[i].payload.liz # <<>>

(***************************************************************************)
(* C8.  As claimed: an asset identifier that appears for the first time in *)
(* a snapshot fetched during a regular cycle gets a TagState created in    *)
(* the registry by the update stage of that cycle.                         *)
(***************************************************************************)
C8_NewIdGetsObject ==
    [][ UpdateStep =>
          \A i \in 1..Len(Results(response')) :
             Results(response')[i].id \in DOMAIN obj_dict' ]_vars

(***************************************************************************)
(* C8, amended.  The update stage of a regular cycle creates nothing: it   *)
(* leaves the keys of the registry as they are, so an identifier that was  *)
(* not in the initial snapshot (or any identifier, when the initial fetch  *)
(* failed) never gets a TagState.                                          *)
(***************************************************************************)
C8_UpdateCreatesNothing ==
    [][ UpdateStep =>
          /\ obj_keys' = obj_keys
          /\ DOMAIN obj_dict' = DOMAIN obj_dict ]_vars

\* The update stage has run on a snapshot with an identifier that the
\* registry does not hold.
C8_Witness ==
    /\ pc = "vectors"
    /\ \E i \in 1..Len(Results(response)) :
          Results(response)[i].id \notin DOMAIN obj_dict

(***************************************************************************)
(* C9.  An asset that is in the registry but absent from the current       *)
(* snapshot is never removed, and update_objects leaves every field of its *)
(* record unchanged in that cycle.                                         *)
(***************************************************************************)
Absent(k, resp) == \A i \in 1..Len(Results(resp)) : Results(resp)[i].id # k

C9_AbsentUntouched ==
    [][ /\ DOMAIN obj_dict \subseteq DOMAIN obj_dict'
        /\ UpdateStep =>
              \A k \in DOMAIN obj_dict :
                 Absent(k, response') => obj_dict'[k] = obj_dict[k] ]_vars

\* An update stage has updated one asset while another asset, absent from
\* the snapshot, still holds the vectors of the previous cycle.
C9_Witness ==
    /\ pc = "vectors"
    /\ "update" \notin log
    /\ \E k, m \in DOMAIN obj_dict :
          /\ Absent(k, response)
          /\ obj_dict[k].vct # <<>>
          /\ ~ Absent(m, response)

(***************************************************************************)
(* C10.  updateObject never raises: for every registry record and every    *)
(* snapshot record, also when posX/posY streams or timestamps are missing  *)
(* or the stored position is unknown, the update completes and the zone    *)
(* sets of the asset are refreshed.                                        *)
(* The program subtracts the coordinates before any test for None.         *)
(***************************************************************************)
C10_UpdateNeverRaises ==
    (pc = "vectors" /\ response # None) =>
        /\ "update" \notin log
        /\ \A i \in 1..Len(Results(response)) :
              LET data == Results(response)[i]
              IN  data.id \in DOMAIN obj_dict =>
                      ZonesRefreshed(obj_dict[data.id], data)

(***************************************************************************)
(* C11.  End to end: with asset A at (0,0) with heading 0 and asset B at   *)
(* (0,10), neither in a bad-signal zone, the vector that create_vectors    *)
(* stores for A towards B has distance 10.0 and direction 0.               *)
(* The program stores direction -1: the heading 0 fails the test "if       *)
(* my_hdg" (C4), and calculate_heading gives 180 for the bearing from      *)
(* (0,0) to (0,10) (C12).                                                  *)
(***************************************************************************)
\* The vector that the record of a holds for b.
VectorTowards(a, b) ==
    LET others == Others(obj_keys, a)
    IN  obj_dict[a].vct[CHOOSE i \in 1..Len(others) : others[i] = b]

C11_EndToEndVector ==
    (pc = "zones" /\ "vectors" \notin log) =>
        \A a, b \in DOMAIN obj_dict :
           (/\ a # b
            /\ obj_dict[a].pos = <<Some(0), Some(0)>>
            /\ obj_dict[a].hdg = Some(0)
            /\ obj_dict[b].pos = <<Some(0), Some(40)>>
            /\ obj_dict[a].bsz = <<>>
            /\ obj_dict[b].bsz = <<>>) =>
              /\ VectorTowards(a, b).r = 100
              /\ VectorTowards(a, b).d = 0

(***************************************************************************)
(* C12.  calculate_heading measures the bearing clockwise from the         *)
(* positive y axis: for every start point p and every d > 0 the heading    *)
(* from p to p+(0,d) is 0 and the heading from p to p+(d,0) is 90.  Stated *)
(* on the records of the registry: updateObject stores                     *)
(* calculate_heading(his.pos, pos) with every committed move.              *)
(* The program computes atan2(-dy, dx): the heading from p to p+(0,d) is   *)
(* 180.                                                                    *)
(***************************************************************************)
C12_HeadingFromPositiveY ==
    \A k \in DOMAIN obj_dict :
       LET o == obj_dict[k]
       IN  (/\ o.his.pos # None
            /\ PosKnown(o.his.pos)
            /\ PosKnown(o.pos)) =>
              /\ (o.pos[1] = o.his.pos[1] /\ o.pos[2][1] > o.his.pos[2][1]) =>
                    o.hdg = Some(0)
              /\ (o.pos[2] = o.his.pos[2] /\ o.pos[1][1] > o.his.pos[1][1]) =>
                    o.hdg = Some(90)

(***************************************************************************)
(* C13.  In every cycle check_zones issues exactly one actuator command    *)
(* per mapped zone: a command that fails (request error or non-2xx answer, *)
(* both a RequestException) does not prevent the commands for the zones    *)
(* after it, and no command is issued twice within the cycle.  When        *)
(* check_zones returns, every mapped pin has exactly one command; in a run *)
(* that something other than a RequestException cut short, at most one.    *)
(***************************************************************************)
CommandsFor(pin) == {i \in 1..Len(cmds) : cmds[i].pin = pin}

C13_OneCommandPerZone ==
    /\ pc = "telemetry" =>
          \A z \in 1..Len(ZONE_PIN_MAP) :
             Cardinality(CommandsFor(ZONE_PIN_MAP[z].pin)) = 1
    /\ (pc = "exited" /\ cycle >= 1) =>
          \A z \in 1..Len(ZONE_PIN_MAP) :
             Cardinality(CommandsFor(ZONE_PIN_MAP[z].pin)) <= 1

\* check_zones has returned after the command for the first zone failed and
\* the commands for the zones after it were issued.
C13_Witness ==
    /\ pc = "telemetry"
    /\ PinError(ZONE_PIN_MAP[1].pin) \in log
    /\ PinError(ZONE_PIN_MAP[2].pin) \notin log
    /\ \A z \in 2..Len(ZONE_PIN_MAP) : CommandsFor(ZONE_PIN_MAP[z].pin) # {}

(***************************************************************************)
(* C14.  In every cycle send_telemetry makes exactly one publish attempt   *)
(* per asset of the registry, on the topic equal to the stringified asset  *)
(* identifier; a publish that fails does not prevent the attempts for the  *)
(* remaining assets and is not attempted again in that cycle.              *)
(***************************************************************************)
AttemptsFor(k) == {i \in 1..Len(published) : published[i].topic = ToString(k)}

C14_OnePublishPerAsset ==
    (pc = "update" /\ cycle >= 1) =>
        /\ Len(published) = Len(obj_keys)
        /\ \A k \in DOMAIN obj_dict : Cardinality(AttemptsFor(k)) = 1

\* send_telemetry has returned after the publish for the first of two
\* assets failed and the publish for the second was attempted.
C14_Witness ==
    /\ pc = "update"
    /\ cycle >= 1
    /\ Len(obj_keys) = 2
    /\ TopicError(obj_keys[1]) \in log
    /\ TopicError(obj_keys[2]) \notin log
    /\ AttemptsFor(obj_keys[2]) # {}

(***************************************************************************)
(* C15.  Within every cycle the stages run strictly in the order update,   *)
(* vector computation, zone-light control, telemetry publish, each         *)
(* starting only after the previous one has finished, and no stage of the  *)
(* next cycle starts before the publish stage of the current cycle has     *)
(* finished; so the telemetry of a cycle carries the vectors computed in   *)
(* that same cycle: the zone stage leaves the registry as the vector stage *)
(* left it, and every payload is the record of the registry, whose vct     *)
(* holds the vectors from its position, heading and zones of this cycle.   *)
(***************************************************************************)
\* The vectors create_vectors computes for the record of k.
VectorsOf(keys, objs, k) ==
    [j \in 1..Len(Others(keys, k)) |->
        create_vector(objs[k], objs[Others(keys, k)[j]])]

C15_StagesInOrder ==
    [][ /\ pc = "update" => pc' = "vectors" /\ cycle' = cycle + 1
        /\ pc = "vectors" => pc' = "zones"
        /\ pc = "zones" => pc' \in {"telemetry", "exited"} /\ obj_dict' = obj_dict
        /\ pc = "telemetry" => pc' = "update"
        /\ pc # "update" => cycle' = cycle
        /\ pc' = "update" => pc \in {"initialize", "telemetry"}
        /\ pc = "telemetry" =>
              /\ Len(published') = Len(obj_keys)
              /\ \A i \in 1..Len(obj_keys) :
                    /\ published'[i].payload = obj_dict[obj_keys[i]]
                    /\ "vectors" \notin log =>
                          published'[i].payload.vct
                              = VectorsOf(obj_keys, obj_dict, obj_keys[i]) ]_vars

\* A cycle has published vectors with a direction, computed from a heading
\* that the update stage of the same cycle stored.
C15_Witness ==
    /\ pc = "update"
    /\ cycle >= 1
    /\ "vectors" \notin log
    /\ \E i \in 1..Len(published) :
          /\ published[i].payload.vct # <<>>
          /\ published[i].payload.vct[1].d >= 0

(***************************************************************************)
(* C16.  The vectors stored for an asset are in canonical order by         *)
(* counterpart identifier: for two registries that hold the same assets    *)
(* with the same states but were built from snapshots that list the assets *)
(* in different orders, create_vectors produces the same vct sequence for  *)
(* every asset.  The second registry is the one of the state with its keys *)
(* in any other order.                                                     *)
(* The program appends the vectors in the insertion order of the registry, *)
(* which is the order of the initial snapshot.                             *)
(***************************************************************************)
C16_VectorsInCanonicalOrder ==
    (pc = "zones" /\ "vectors" \notin log) =>
        \A keys \in Orders(DOMAIN obj_dict) :
           \A k \in DOMAIN obj_dict :
              create_vectors(keys, obj_dict).objs[k].vct = obj_dict[k].vct

(***************************************************************************)
(* C17.  create_vectors is a deterministic function of the pos, hdg and    *)
(* bsz fields: it writes only the vct field of each record, the vectors it *)
(* stores are those it computes from the records stripped of every other   *)
(* field, and running it twice in a row leaves the registry equal to       *)
(* running it once.                                                        *)
(***************************************************************************)
\* The registry with nothing but pos, hdg and bsz in its records.
OnlyPosHdgBsz(objs) ==
    [k \in DOMAIN objs |->
        [objs[k] EXCEPT !.aka = "", !.tms = None,
                        !.his = [pos |-> None, tms |-> None], !.spd = None,
                        !.mvz = <<>>, !.liz = <<>>, !.vct = <<>>]]

C17_VectorsPureAndIdempotent ==
    [][ pc = "vectors" =>
          /\ obj_keys' = obj_keys
          /\ DOMAIN obj_dict' = DOMAIN obj_dict
          /\ \A k \in DOMAIN obj_dict :
                /\ [obj_dict'[k] EXCEPT !.vct = obj_dict[k].vct] = obj_dict[k]
                /\ obj_dict'[k].vct
                      = create_vectors(obj_keys, OnlyPosHdgBsz(obj_dict)).objs[k].vct
          /\ create_vectors(obj_keys', obj_dict').objs = obj_dict' ]_vars

\* create_vectors has replaced the vectors an earlier cycle left in a
\* record by vectors with a direction.
C17_Witness ==
    /\ pc = "zones"
    /\ cycle >= 2
    /\ "vectors" \notin log
    /\ \E k \in DOMAIN obj_dict :
          /\ obj_dict[k].vct # <<>>
          /\ obj_dict[k].vct[1].d >= 0
          /\ \A i \in 1..Len(Results(response)) : Results(response)[i].id # k

(***************************************************************************)
(* C18.  When the server process receives a termination request, the last  *)
(* command sent to every mapped actuator before the process exits is ON    *)
(* (the safe default state).  Stated on the commands of the latest         *)
(* set_all_lights or check_zones: for every mapped pin that has a command  *)
(* among them, the last one is ON.                                         *)
(* main() has no shutdown sequence: the process stops with the lights as   *)
(* the latest check_zones commanded them.                                  *)
(***************************************************************************)
C18_SafeStateOnTermination ==
    pc = "terminated" =>
        \A z \in 1..Len(ZONE_PIN_MAP) :
           LET sent == CommandsFor(ZONE_PIN_MAP[z].pin)
           IN  sent # {} =>
                  cmds[CHOOSE i \in sent : \A j \in sent : j <= i].state

(***************************************************************************)
(* C19.  In every reachable registry state the position of every asset is  *)
(* either fully known (both x and y present) or fully unknown (both        *)
(* absent); it is never a pair with exactly one coordinate present,        *)
(* whatever streams the snapshot records carry.                            *)
(* createObject stores the pair of the two _extract_pos results as it is:  *)
(* a record with a posX stream and no posY stream gives (x, None).         *)
(***************************************************************************)
C19_PositionAllOrNothing ==
    \A k \in DOMAIN obj_dict :
       (obj_dict[k].pos[1] = None) <=> (obj_dict[k].pos[2] = None)

(***************************************************************************)
(* C20.  As claimed: when an update commits a position and the new         *)
(* timestamp or the prior timestamp is unknown, the asset's speed is left  *)
(* at the value it had before the update.  Stated for the assets whose     *)
(* speed has been computed before, so that there is a value to keep.       *)
(***************************************************************************)
\* The update of obj_dict[k] with data committed a position while the new or
\* the prior timestamp was unknown.
CommittedWithoutTimestamp(k, data) ==
    /\ k \in DOMAIN obj_dict
    /\ Committed(obj_dict[k], obj_dict'[k], data)
    /\ (_extract_tms(data) = None \/ obj_dict[k].tms = None)

C20_SpeedKeptWithoutTimestamp ==
    [][ UpdateStep =>
          \A i \in 1..Len(Results(response')) :
             LET data == Results(response')[i]
             IN  (/\ CommittedWithoutTimestamp(data.id, data)
                  /\ obj_dict[data.id].spd # None) =>
                    obj_dict'[data.id].spd = obj_dict[data.id].spd ]_vars

(***************************************************************************)
(* C20, amended.  When an update commits a position and the new timestamp  *)
(* or the prior timestamp is unknown, the asset's speed is set to 0,       *)
(* whatever it was before the update.                                      *)
(***************************************************************************)
C20_SpeedZeroWithoutTimestamp ==
    [][ UpdateStep =>
          \A i \in 1..Len(Results(response')) :
             LET data == Results(response')[i]
             IN  CommittedWithoutTimestamp(data.id, data) =>
                    obj_dict'[data.id].spd = Some(0) ]_vars

\* An update stage has committed a position without timestamp for an asset
\* whose prior position had one: the speed is 0.
C20_Witness ==
    /\ pc = "vectors"
    /\ \E k \in DOMAIN obj_dict :
          /\ obj_dict[k].his.pos # None
          /\ obj_dict[k].his.tms # None
          /\ obj_dict[k].tms = None
          /\ obj_dict[k].spd = Some(0)

(***************************************************************************)
(* C21.  In every reachable registry state the heading of every asset is   *)
(* either unknown or an integer degree value h with 0 <= h < 360;          *)
(* calculate_heading never returns 360 for a pair of distinct points.      *)
(* The program rounds after the normalisation: (90 - deg) % 360 is below   *)
(* 360, but from 359.5 on round() gives 360.                               *)
(***************************************************************************)
C21_HeadingBelow360 ==
    \A k \in DOMAIN obj_dict :
       obj_dict[k].hdg # None =>
          0 <= obj_dict[k].hdg[1] /\ obj_dict[k].hdg[1] < 360

(***************************************************************************)
(* C23.  As claimed: the update stage is not atomic: when updateObject     *)
(* raises for one record of the snapshot, the records before it in the     *)
(* snapshot keep the updates already applied in that cycle, and the        *)
(* registry entries of the failing record and of every record after it in  *)
(* the snapshot are exactly as they were at the start of the cycle (no     *)
(* position commit, no zone refresh, no vector reset).                     *)
(***************************************************************************)
\* updateObject raises for the record data of an asset of the registry: a
\* coordinate is missing on either side, or a zone has no name.
RaisesFor(data) ==
    /\ data.id \in DOMAIN obj_dict
    /\ \/ ~ (PosKnown(Reported(data)) /\ PosKnown(obj_dict[data.id].pos))
       \/ \E j \in 1..Len(data.zones) : data.zones[j].zone_name = None

\* The update stage of this step raised at record number f of the snapshot.
FailsAt(f) ==
    /\ UpdateStep
    /\ f \in 1..Len(Results(response'))
    /\ RaisesFor(Results(response')[f])
    /\ \A i \in 1..(f - 1) : ~ RaisesFor(Results(response')[i])

\* The records before number f keep their updates, those after it are as
\* they were.
OthersAround(f) ==
    \A i \in 1..Len(Results(response')) :
       LET data == Results(response')[i]
           k == data.id
       IN  k \in DOMAIN obj_dict =>
              /\ i < f => obj_dict'[k] = updateObject(obj_dict[k], data)
              /\ i > f => obj_dict'[k] = obj_dict[k]

C23_FailingRecordUntouched ==
    [][ \A f \in 1..Len(Results(response')) :
           FailsAt(f) =>
              /\ OthersAround(f)
              /\ obj_dict'[Results(response')[f].id]
                    = obj_dict[Results(response')[f].id] ]_vars

(***************************************************************************)
(* C23, amended.  The update stage is not atomic: when updateObject raises *)
(* for one record of the snapshot, the records before it keep the updates  *)
(* already applied in that cycle and the records after it are exactly as   *)
(* they were at the start of the cycle.  The failing record is as it was   *)
(* when a coordinate is missing (the raise is in the test of the move);    *)
(* when the raise is in the extraction of the zone names, it has no zone   *)
(* refresh and no vector reset but keeps the position commit, if the       *)
(* report moved far enough.                                                *)
(***************************************************************************)
C23_FailingRecordKeepsCommit ==
    [][ \A f \in 1..Len(Results(response')) :
           FailsAt(f) =>
              LET data == Results(response')[f]
                  old == obj_dict[data.id]
                  new == obj_dict'[data.id]
              IN  /\ OthersAround(f)
                  /\ "update" \in log'
                  /\ IF PosKnown(Reported(data)) /\ PosKnown(old.pos)
                     THEN /\ new.mvz = old.mvz /\ new.liz = old.liz
                          /\ new.bsz = old.bsz /\ new.vct = old.vct
                          /\ IF calculate_distance(Reported(data), old.pos)
                                   >= POS_FLUCTUATION_FILTER
                             THEN Committed(old, new, data)
                             ELSE KinematicsKept(old, new)
                     ELSE new = old ]_vars

\* An update stage has updated the first record of a snapshot and raised in
\* the zone names of the second, after the commit of its position.
C23_Witness ==
    /\ pc = "vectors"
    /\ "update" \in log
    /\ Len(Results(response)) = 2
    /\ \A i \in 1..2 : Results(response)[i].id \in DOMAIN obj_dict
    /\ LET first == Results(response)[1]
           second == Results(response)[2]
       IN  /\ \E j \in 1..Len(second.zones) : second.zones[j].zone_name = None
           /\ obj_dict[second.id].pos = Reported(second)
           /\ obj_dict[second.id].his.pos # None
           /\ obj_dict[second.id].liz # _extract_zone_names(second, "L")
           /\ obj_dict[first.id].pos = Reported(first)
           /\ obj_dict[first.id].his.pos # None

(***************************************************************************)
(* C24.  pos, tms and his of an asset change only together and only on a   *)
(* commit: in every step either none of the three fields of an asset       *)
(* changes, or the step is an update stage that commits the report of the  *)
(* asset: pos and tms become the reported position and timestamp, the      *)
(* position is a new one, and his becomes the single (pos, tms) pair the   *)
(* asset held before the step, in place of the pair his held.              *)
(***************************************************************************)
C24_CommitChangesTogether ==
    [][ \A k \in DOMAIN obj_dict \cap DOMAIN obj_dict' :
           LET old == obj_dict[k]
               new == obj_dict'[k]
           IN  \/ new.pos = old.pos /\ new.tms = old.tms /\ new.his = old.his
               \/ /\ UpdateStep
                  /\ \E i \in 1..Len(Results(response')) :
                        /\ Results(response')[i].id = k
                        /\ Committed(old, new, Results(response')[i])
                  /\ new.pos # old.pos
                  /\ new.his # old.his
                  /\ DOMAIN new.his = {"pos", "tms"} ]_vars

\* An asset has committed a second position: its history is the pair it held
\* before that commit, not the one of its creation.
C24_Witness ==
    /\ pc = "vectors"
    /\ \E k \in DOMAIN obj_dict :
          /\ obj_dict[k].his.pos # <<None, None>>
          /\ obj_dict[k].his.tms # None
          /\ obj_dict[k].tms # None
          /\ obj_dict[k].his.tms # obj_dict[k].tms
          /\ obj_dict[k].pos # obj_dict[k].his.pos
          /\ \E i \in 1..Len(Results(response)) :
                /\ Results(response)[i].id = k
                /\ Reported(Results(response)[i]) = obj_dict[k].pos

Lists(obj, zone) == \E j \in 1..Len(obj.liz) : obj.liz[j] = zone

C26_StaleZoneStaysOccupied ==
    [][ \A z \in 1..Len(ZONE_PIN_MAP) : \A k \in DOMAIN obj_dict :
           Lists(obj_dict[k], ZONE_PIN_MAP[z].zone) =>
              /\ (UpdateStep => Absent(k, response')) =>
                    /\ k \in DOMAIN obj_dict'
                    /\ Lists(obj_dict'[k], ZONE_PIN_MAP[z].zone)
              /\ pc = "zones" =>
                    \A i \in 1..Len(cmds') :
                       cmds'[i].pin = ZONE_PIN_MAP[z].pin =>
                          cmds'[i].state = FALSE ]_vars

\* In the second cycle an asset that had moved in the first is absent from a
\* snapshot that reports another asset, and the command for a mapped zone
\* that only the absent asset lists has been issued as OFF.
C26_Witness ==
    /\ pc = "telemetry"
    /\ cycle = 2
    /\ \E k \in DOMAIN obj_dict : \E z \in 1..Len(ZONE_PIN_MAP) :
          /\ Len(Results(response)) >= 1
          /\ Absent(k, response)
          /\ obj_dict[k].his.pos # <<None, None>>
          /\ Lists(obj_dict[k], ZONE_PIN_MAP[z].zone)
          /\ \A o \in DOMAIN obj_dict \ {k} :
                ~ Lists(obj_dict[o], ZONE_PIN_MAP[z].zone)
          /\ \E i \in 1..Len(cmds) :
                /\ cmds[i].pin = ZONE_PIN_MAP[z].pin
                /\ cmds[i].state = FALSE

(***************************************************************************)
(* C22.  A missed actuator command is corrected by later cycles: for every *)
(* mapped zone, if from some point on the zone stays occupied (or stays    *)
(* free) and again and again a check_zones returns with the command for    *)
(* the zone accepted, then from some point on the LED of the zone is in    *)
(* the target state of the zone, off for occupied and on for free, for     *)
(* ever.                                                                   *)
(***************************************************************************)
\* check_zones has returned and the GPIO server accepted the command for
\* zone number z.
CommandSucceeded(z) ==
    /\ pc = "telemetry"
    /\ CommandsFor(ZONE_PIN_MAP[z].pin) # {}
    /\ PinError(ZONE_PIN_MAP[z].pin) \notin log

TargetState(z) == ~ ZoneListed(obj_dict, ZONE_PIN_MAP[z].zone)

C22_MissedCommandCorrected ==
    \A z \in 1..Len(ZONE_PIN_MAP) :
       /\ (<>[]TargetState(z) /\ []<>CommandSucceeded(z))
             => <>[](leds[ZONE_PIN_MAP[z].pin] = Some(TRUE))
       /\ (<>[](~ TargetState(z)) /\ []<>CommandSucceeded(z))
             => <>[](leds[ZONE_PIN_MAP[z].pin] = Some(FALSE))

\* A check_zones has returned with the command for the first zone missed,
\* its LED not in the target state, and the command for an occupied zone
\* accepted, its LED switched off.
C22_Witness ==
    /\ pc = "telemetry"
    /\ PinError(ZONE_PIN_MAP[1].pin) \in log
    /\ leds[ZONE_PIN_MAP[1].pin] # Some(TargetState(1))
    /\ \E z \in 2..Len(ZONE_PIN_MAP) :
          /\ CommandSucceeded(z)
          /\ ~ TargetState(z)
          /\ leds[ZONE_PIN_MAP[z].pin] = Some(FALSE)

(***************************************************************************)
(* C27.  In the vehicle alarm utility, under every interleaving of the     *)
(* polling loop, the toggle thread and the creation and removal of the     *)
(* flag file: at most one toggle thread is alive at any time, and whenever *)
(* a polling iteration that found the flag file absent has finished, no    *)
(* toggle thread is alive and the last LED action was on().                *)
(***************************************************************************)
C27_OneToggleThread ==
    /\ Cardinality(Alive) <= 1
    /\ (alarm_pc = "sleep" /\ ~ found) =>
          /\ Alive = {}
          /\ led = "on"

\* A polling iteration has found the flag file absent and finished after it
\* stopped the second toggle thread, which had switched the LED.
C27_Witness ==
    /\ alarm_pc = "sleep"
    /\ ~ found
    /\ stop_event
    /\ Len(threads) = 2
    /\ toggle_thread = Some(2)
    /\ led = "on"

=============================================================================
